---- MODULE Spec2Model ----
(***************************************************************************)
(* Model of robusta_krr/core/integrations/kubernetes.py: the cluster-list  *)
(* resolution of KubernetesLoader.list_clusters, the label-selector        *)
(* rendering of ClusterLoader._build_selector_query, and the asyncio       *)
(* fan-out of KubernetesLoader.list_scannable_objects over ClusterLoader   *)
(* tasks, kind-listing tasks and object-build tasks.                       *)
(*                                                                         *)
(* Python values: an Optional[T] is None == <<>> or Some(v) == <<v>>; a    *)
(* list is a sequence; a dict is the sequence of its (key, value) pairs in *)
(* insertion order.                                                        *)
(***************************************************************************)
EXTENDS Naturals, Sequences, FiniteSets

None == <<>>
Some(v) == <<v>>
IsNone(x) == x = <<>>
The(x) == x[1]

Range(s) == {s[n] : n \in 1..Len(s)}

RECURSIVE chain(_)
\* itertools.chain(*lists): the concatenation of a sequence of sequences.
chain(lists) ==
    IF lists = <<>> THEN <<>> ELSE Head(lists) \o chain(Tail(lists))

RECURSIVE join(_, _)
\* sep.join(parts) of str.
join(sep, parts) ==
    IF parts = <<>> THEN ""
    ELSE IF Len(parts) = 1 THEN parts[1]
    ELSE parts[1] \o sep \o join(sep, Tail(parts))

(***************************************************************************)
(* Selector rendering.                                                     *)
(***************************************************************************)

\* str.lower, on the operator strings of the selectors below.
lower(s) ==
    CASE s \in {"Exists", "EXISTS", "exists"} -> "exists"
      [] s \in {"DoesNotExist", "doesnotexist"} -> "doesnotexist"
      [] s = "In" -> "in"
      [] s = "NotIn" -> "notin"
      [] s = "Gt" -> "gt"

\* A faulty variant: the two exempted operators are compared without .lower().
GetMatchExpressionFilterCaseSensitive(expression) ==
    IF expression.operator = "Exists" THEN expression.key
    ELSE IF expression.operator = "DoesNotExist" THEN "!" \o expression.key
    ELSE expression.key \o " " \o expression.operator
         \o " (" \o join(",", expression.values) \o ")"

_get_match_expression_filter(expression) ==
    IF lower(expression.operator) = "exists" THEN expression.key
    ELSE IF lower(expression.operator) = "doesnotexist" THEN "!" \o expression.key
    ELSE expression.key \o " " \o expression.operator
         \o " (" \o join(",", expression.values) \o ")"

\* The outcome of a call: it raised `exc`, or it returned `ret`.
Raised(e) == [exc |-> e, ret |-> None]
Returned(v) == [exc |-> "", ret |-> v]

\* selector.match_labels.items() raises AttributeError when match_labels is
\* None; otherwise the function returns a str (",".join of an empty list is
\* the empty string, never None).
_build_selector_query(selector) ==
    IF IsNone(selector.match_labels)
    THEN Raised("AttributeError")
    ELSE LET labels == The(selector.match_labels)
             label_filters ==
                 [n \in 1..Len(labels) |-> labels[n][1] \o "=" \o labels[n][2]]
             expression_filters ==
                 IF IsNone(selector.match_expressions) THEN <<>>
                 ELSE LET es == The(selector.match_expressions)
                      IN [n \in 1..Len(es) |-> _get_match_expression_filter(es[n])]
         IN Returned(Some(join(",", label_filters \o expression_filters)))

(***************************************************************************)
(* Cluster-list resolution.                                                *)
(***************************************************************************)

\* A faulty variant: the explicit filter is returned as configured, unknown names
\* included, instead of the enumerated contexts found in it.
ResolveNamesUnchecked(config_clusters, contexts, current_context) ==
    IF config_clusters.kind = "none"
       \/ (config_clusters.kind = "list" /\ config_clusters.names = <<>>)
    THEN <<current_context>>
    ELSE IF config_clusters.kind = "star" THEN contexts
    ELSE config_clusters.names

\* Lines 189-197 of list_clusters, after the contexts were enumerated.
\* config.clusters is None, the string "*" or a list of names; `not
\* config.clusters` holds of None and of the empty list.
ResolveNames(config_clusters, contexts, current_context) ==
    IF config_clusters.kind = "none"
       \/ (config_clusters.kind = "list" /\ config_clusters.names = <<>>)
    THEN <<current_context>>
    ELSE IF config_clusters.kind = "star" THEN contexts
    ELSE SelectSeq(contexts, LAMBDA name : name \in Range(config_clusters.names))

(***************************************************************************)
(* Namespace policy.                                                       *)
(***************************************************************************)

\* A faulty variant: the wildcard keeps the system namespace.
KeepNamespaceAll(config_namespaces, namespace) ==
    IF config_namespaces.kind = "star" THEN TRUE
    ELSE namespace \in Range(config_namespaces.names)

\* The condition of the two list comprehensions of lines 56-60.
KeepNamespace(config_namespaces, namespace) ==
    IF config_namespaces.kind = "star" THEN namespace # "kube-system"
    ELSE namespace \in Range(config_namespaces.names)

NamespaceFilter(config_namespaces, objs) ==
    SelectSeq(objs, LAMBDA obj : KeepNamespace(config_namespaces, obj.namespace))

(***************************************************************************)
(* The cluster API: what the servers hold.  The loader of cluster None     *)
(* talks to the ambient (in-cluster) server, one of context `name` to the  *)
(* server of that context.                                                 *)
(***************************************************************************)

Kinds == <<"V1Deployment", "V1StatefulSet", "V1DaemonSet", "V1Job">>

\* A faulty variant: _list_pods is gathered as a fifth listing.
KindIdsWithPods == 1..5

KindIds == 1..4

\* item.__class__.__name__[2:]
ClassNameFrom2(cls) ==
    CASE cls = "V1Deployment" -> "Deployment"
      [] cls = "V1StatefulSet" -> "StatefulSet"
      [] cls = "V1DaemonSet" -> "DaemonSet"
      [] cls = "V1Job" -> "Job"

Container(name, resources) == [name |-> name, resources |-> resources]

Web ==
    [cls |-> "V1Deployment", namespace |-> "default", name |-> "web",
     selector |->
        [match_labels |-> Some(<< <<"app", "web">> >>),
         match_expressions |->
            Some(<< [key |-> "tier", operator |-> "In", values |-> <<"fe", "edge">>] >>)],
     containers |-> << Container("nginx", "100m"), Container("sidecar", "50m") >>]

Dns ==
    [cls |-> "V1Deployment", namespace |-> "kube-system", name |-> "coredns",
     selector |->
        [match_labels |-> Some(<< <<"k8s-app", "kube-dns">> >>),
         match_expressions |-> None],
     containers |-> << Container("coredns", "100m") >>]

\* A workload whose selector has no match-labels and no match-expressions.
Db ==
    [cls |-> "V1StatefulSet", namespace |-> "default", name |-> "db",
     selector |-> [match_labels |-> Some(<<>>), match_expressions |-> None],
     containers |-> << Container("postgres", "1") >>]

Api ==
    [cls |-> "V1Deployment", namespace |-> "default", name |-> "api",
     selector |->
        [match_labels |-> Some(<< <<"app", "api">> >>), match_expressions |-> None],
     containers |-> << Container("server", "250m") >>]

Queue ==
    [cls |-> "V1StatefulSet", namespace |-> "prod", name |-> "queue",
     selector |->
        [match_labels |-> Some(<< <<"app", "queue">> >>),
         match_expressions |->
            Some(<< [key |-> "canary", operator |-> "DoesNotExist", values |-> <<>>] >>)],
     containers |-> << Container("broker", "200m") >>]

\* A workload selected by match-expressions alone: a manifest without
\* matchLabels deserializes to match_labels None.
Agent ==
    [cls |-> "V1DaemonSet", namespace |-> "default", name |-> "agent",
     selector |->
        [match_labels |-> None,
         match_expressions |->
            Some(<< [key |-> "agent", operator |-> "Exists", values |-> <<>>] >>)],
     containers |-> << Container("agent", "50m") >>]

Ambient == "in-cluster"

ApiServer(cluster) == IF IsNone(cluster) THEN Ambient ELSE The(cluster)

\* The items of list_<kind>_for_all_namespaces, in the API's order.
Listing(server, k) ==
    CASE server = Ambient /\ k = 1 -> <<Web, Dns>>
      [] server = Ambient /\ k = 2 -> <<Db>>
      [] server = "a" /\ k = 1 -> <<Api>>
      [] server = "b" /\ k = 2 -> <<Queue>>
      [] server = "c" /\ k = 3 -> <<Agent>>
      [] OTHER -> <<>>

\* The pod names list_namespaced_pod may answer with: the pods of a live
\* cluster come and go between two calls.
PodLists(server, namespace, label_selector) ==
    CASE label_selector = "app=web,tier In (fe,edge)" ->
            { <<"web-1", "web-2", "web-3">>, <<"web-1", "web-3", "web-4">> }
      [] label_selector = "app=api" -> { <<"api-1", "api-2">> }
      [] label_selector = "k8s-app=kube-dns" -> { <<"coredns-1">> }
      [] label_selector = "app=queue,!canary" -> { <<"queue-0">> }
      [] label_selector = "" /\ namespace = "default" ->
            { <<"web-1", "web-2", "web-3", "db-0">> }
      [] OTHER -> { <<>> }

\* The (item, container) pairs of one listing, in the order of the nested
\* comprehension of lines 112-116.
RECURSIVE Pairs(_)
Pairs(items) ==
    IF items = <<>> THEN <<>>
    ELSE [n \in 1..Len(Head(items).containers) |->
             [item |-> Head(items), container |-> Head(items).containers[n]]]
         \o Pairs(Tail(items))

(***************************************************************************)
(* State.                                                                  *)
(***************************************************************************)

VARIABLES
    config,           \* self.config: inside_cluster, clusters, namespaces
    kube,             \* the kube-config store: reachable, contexts, current_context
    kube_calls,       \* calls of config.list_kube_config_contexts so far
    pc,               \* where the caller of the discovery is
    clusters,         \* the value list_clusters returned
    cluster_loaders,  \* the ClusterLoaders of list_scannable_objects
    clusterTask,      \* per loader: ClusterLoader.list_scannable_objects
    kindTask,         \* per loader and kind: the _list_<kind> coroutine
    buildTask,        \* per loader and kind: its __build_obj tasks, in order
    result,           \* the value KubernetesLoader.list_scannable_objects returned
    queue,            \* calls handed to asyncio.to_thread that wait for a thread
    zombies,          \* threads still in the call of a task that was cancelled
    selector,         \* the argument of a lone _build_selector_query call
    selector_query    \* and its outcome

vars ==
    <<config, kube, kube_calls, pc, clusters, cluster_loaders, clusterTask,
      kindTask, buildTask, result, queue, zombies, selector, selector_query>>

scanVars ==
    <<cluster_loaders, clusterTask, kindTask, buildTask, result, queue, zombies>>

Loaders == 1..Len(cluster_loaders)

ClustersNone == [kind |-> "none", names |-> <<>>]
ClustersAll == [kind |-> "star", names |-> <<>>]
ClustersList(names) == [kind |-> "list", names |-> names]
NamespacesAll == [kind |-> "star", names |-> <<>>]
NamespacesList(names) == [kind |-> "list", names |-> names]

\* The configurations and kube-config stores of the scans.
ScanConfigs ==
    [inside_cluster : {TRUE},
     clusters : {ClustersNone, ClustersAll},
     namespaces : {NamespacesAll, NamespacesList(<<"default">>),
                   NamespacesList(<<"kube-system", "default">>)}]
    \cup
    [inside_cluster : {FALSE},
     clusters : {ClustersNone, ClustersAll, ClustersList(<<"b", "ghost">>),
                 ClustersList(<<>>)},
     namespaces : {NamespacesAll}]
    \cup
    [inside_cluster : {FALSE},
     clusters : {ClustersList(<<"b", "ghost">>), ClustersList(<<"ghost">>)},
     namespaces : {NamespacesList(<<"kube-system">>), NamespacesList(<<"prod">>)}]

ScanKubes ==
    [reachable : BOOLEAN, contexts : {<<"a", "b">>}, current_context : {"a"}]
    \cup
    [reachable : BOOLEAN, contexts : {<<"c">>}, current_context : {"c"}]

InitProgram ==
    /\ kube_calls = 0
    /\ pc = "start"
    /\ clusters = None
    /\ cluster_loaders = <<>>
    /\ clusterTask = <<>>
    /\ kindTask = <<>>
    /\ buildTask = <<>>
    /\ result = None
    /\ queue = <<>>
    /\ zombies = 0

Init ==
    /\ config \in ScanConfigs
    /\ kube \in ScanKubes
    /\ config.inside_cluster => ~kube.reachable
    /\ InitProgram
    /\ selector = [match_labels |-> None, match_expressions |-> None]
    /\ selector_query = None

(***************************************************************************)
(* KubernetesLoader.list_clusters.                                         *)
(***************************************************************************)

\* Lines 178-180: inside the cluster, None without looking at the contexts.
ListClustersInside ==
    /\ pc = "start"
    /\ config.inside_cluster
    /\ clusters' = None
    /\ pc' = "resolved"
    /\ UNCHANGED <<config, kube, kube_calls, scanVars, selector, selector_query>>

\* Lines 182-197: the contexts are enumerated and the filter applied.
ListClustersReturns ==
    /\ pc = "start"
    /\ ~config.inside_cluster
    /\ kube.reachable
    /\ kube_calls' = kube_calls + 1
    /\ clusters' = Some(ResolveNames(config.clusters, kube.contexts, kube.current_context))
    /\ pc' = "resolved"
    /\ UNCHANGED <<config, kube, scanVars, selector, selector_query>>

\* A faulty variant: the error of the enumeration is swallowed and no cluster is
\* resolved.
ListClustersSwallows ==
    /\ pc = "start"
    /\ ~config.inside_cluster
    /\ ~kube.reachable
    /\ kube_calls' = kube_calls + 1
    /\ clusters' = Some(<<>>)
    /\ pc' = "resolved"
    /\ UNCHANGED <<config, kube, scanVars, selector, selector_query>>

\* Line 182: config.list_kube_config_contexts raises; nothing catches it.
ListClustersRaises ==
    /\ pc = "start"
    /\ ~config.inside_cluster
    /\ ~kube.reachable
    /\ kube_calls' = kube_calls + 1
    /\ pc' = "raised"
    /\ UNCHANGED <<config, kube, clusters, scanVars, selector, selector_query>>

(***************************************************************************)
(* KubernetesLoader.list_scannable_objects and the tasks under it.         *)
(***************************************************************************)

\* A faulty variant: the loader of the ambient context is named after a context.
ClusterLoaderNamed(cluster) ==
    [cluster |-> IF IsNone(cluster) THEN Some("default") ELSE cluster]

\* Lines 25-32: self.cluster = cluster; the API clients are those of the
\* context `cluster`, or the ambient ones when it is None.
ClusterLoader(cluster) == [cluster |-> cluster]

\* asyncio.to_thread (lines 88, 108, 121, 134, 147) hands the call to the
\* loop's default executor, a pool of min(32, os.cpu_count() + 4) threads:
\* five on one CPU.  A call handed over while every thread is busy waits in
\* the executor's queue, first in first out.
PoolSize == 5

\* A call is <<loader, kind, 0>> for the list call of a kind and
\* <<loader, kind, n>> for the pod-list call of its n-th build task.
Queued(call) == \E m \in 1..Len(queue) : queue[m] = call

\* The calls handed over whose task still awaits them.
Handed ==
    {c \in Loaders \X KindIds \X {0} : kindTask[c[1]][c[2]] = "listing"}
    \cup
    UNION {{<<i, k, n>> : n \in {m \in 1..Len(buildTask[i][k]) :
                                    buildTask[i][k][m].st = "calling"}} :
              i \in Loaders, k \in KindIds}

\* The threads in a call.
Busy == Cardinality(Handed) - Len(queue) + zombies

\* A faulty variant: a call that had to wait is never taken from the queue.
AdmitLost(q, idle) == q

\* A faulty variant: the pool runs one call at a time.
AdmitSerial(q, idle) ==
    IF q # <<>> /\ idle >= PoolSize THEN Tail(q) ELSE q

\* The calls still waiting once the `idle` threads have taken theirs.
Admit(q, idle) ==
    IF Len(q) <= idle THEN <<>> ELSE SubSeq(q, idle + 1, Len(q))

\* Lines 206-211: the loaders are made and their scans gathered; each scan
\* gathers its four _list_<kind> coroutines, each of which hands its list
\* call to a thread.
StartScan ==
    /\ pc = "resolved"
    /\ pc' = "scanning"
    /\ cluster_loaders' =
          IF IsNone(clusters) THEN <<ClusterLoader(None)>>
          ELSE [n \in 1..Len(The(clusters)) |-> ClusterLoader(Some(The(clusters)[n]))]
    /\ clusterTask' = [n \in 1..Len(cluster_loaders') |-> [st |-> "running", objects |-> <<>>]]
    /\ kindTask' = [n \in 1..Len(cluster_loaders') |-> [k \in KindIds |-> "listing"]]
    /\ buildTask' = [n \in 1..Len(cluster_loaders') |-> [k \in KindIds |-> <<>>]]
    /\ queue' = Admit(chain([n \in 1..Len(cluster_loaders') |->
                                [k \in KindIds |-> <<n, k, 0>>]]), PoolSize)
    /\ UNCHANGED <<config, kube, kube_calls, clusters, result, zombies,
                   selector, selector_query>>

\* __list_pods up to its await (lines 84-90): the selector is rendered and,
\* unless it is None, the pod-list call handed to a thread.
ListPodsStart(resource) ==
    LET q == _build_selector_query(resource.selector)
    IN  IF q.exc # ""
        THEN [st |-> "raised", namespace |-> resource.namespace,
              label_selector |-> None, pods |-> <<>>]
        ELSE IF IsNone(q.ret)
        THEN [st |-> "done", namespace |-> resource.namespace,
              label_selector |-> None, pods |-> <<>>]
        ELSE [st |-> "calling", namespace |-> resource.namespace,
              label_selector |-> q.ret, pods |-> <<>>]

\* Lines 108-117: the list call returns and one __build_obj per (item,
\* container) pair is gathered; each runs to the await of its __list_pods.
ListReturns(i, k) ==
    /\ kindTask[i][k] = "listing"
    /\ ~Queued(<<i, k, 0>>)
    /\ kindTask' = [kindTask EXCEPT ![i][k] = "listed"]
    /\ LET pairs == Pairs(Listing(ApiServer(cluster_loaders[i].cluster), k))
           builds == [n \in 1..Len(pairs) |-> ListPodsStart(pairs[n].item)]
           calls == SelectSeq([n \in 1..Len(pairs) |-> <<i, k, n>>],
                              LAMBDA c : builds[c[3]].st = "calling")
       IN /\ buildTask' = [buildTask EXCEPT ![i][k] = builds]
          /\ queue' = Admit(queue \o calls, PoolSize - (Busy - 1))
    /\ UNCHANGED <<config, kube, kube_calls, pc, clusters, cluster_loaders,
                   clusterTask, result, zombies, selector, selector_query>>

\* Line 108: the list call raises in its thread.
ListRaises(i, k) ==
    /\ kindTask[i][k] = "listing"
    /\ ~Queued(<<i, k, 0>>)
    /\ kindTask' = [kindTask EXCEPT ![i][k] = "raised"]
    /\ queue' = Admit(queue, PoolSize - (Busy - 1))
    /\ UNCHANGED <<config, kube, kube_calls, pc, clusters, cluster_loaders,
                   clusterTask, buildTask, result, zombies, selector, selector_query>>

\* Lines 88-91: list_namespaced_pod returns; the names in response order.
PodsReturn(i, k, n) ==
    /\ buildTask[i][k][n].st = "calling"
    /\ ~Queued(<<i, k, n>>)
    /\ queue' = Admit(queue, PoolSize - (Busy - 1))
    /\ \E response \in PodLists(ApiServer(cluster_loaders[i].cluster),
                                buildTask[i][k][n].namespace,
                                The(buildTask[i][k][n].label_selector)) :
          buildTask' = [buildTask EXCEPT ![i][k][n].st = "done",
                                         ![i][k][n].pods = response]
    /\ UNCHANGED <<config, kube, kube_calls, pc, clusters, cluster_loaders,
                   clusterTask, kindTask, result, zombies, selector, selector_query>>

\* Line 88: list_namespaced_pod raises in its thread.
PodsRaise(i, k, n) ==
    /\ buildTask[i][k][n].st = "calling"
    /\ ~Queued(<<i, k, n>>)
    /\ queue' = Admit(queue, PoolSize - (Busy - 1))
    /\ buildTask' = [buildTask EXCEPT ![i][k][n].st = "raised"]
    /\ UNCHANGED <<config, kube, kube_calls, pc, clusters, cluster_loaders,
                   clusterTask, kindTask, result, zombies, selector, selector_query>>

\* Lines 96-104: the K8sObjectData of one (item, container) pair.
BuildObj(cluster, item, container, pods) ==
    [cluster |-> cluster,
     namespace |-> item.namespace,
     name |-> item.name,
     kind |-> ClassNameFrom2(item.cls),
     container |-> container.name,
     allocations |-> container.resources,
     pods |-> pods]

\* A gather with return_exceptions unset is done with the first exception of
\* a child, or with every child's result once all have returned.
KindFailed(i, k) ==
    \/ kindTask[i][k] = "raised"
    \/ \E n \in 1..Len(buildTask[i][k]) : buildTask[i][k][n].st = "raised"

KindDone(i, k) ==
    /\ kindTask[i][k] = "listed"
    /\ \A n \in 1..Len(buildTask[i][k]) : buildTask[i][k][n].st = "done"

\* A faulty variant: the objects of a kind come in the reverse of the order of
\* their (item, container) pairs.
KindObjectsReversed(i, k) ==
    LET pairs == Pairs(Listing(ApiServer(cluster_loaders[i].cluster), k))
    IN [n \in 1..Len(pairs) |->
           BuildObj(cluster_loaders[i].cluster,
                    pairs[Len(pairs) + 1 - n].item, pairs[Len(pairs) + 1 - n].container,
                    buildTask[i][k][Len(pairs) + 1 - n].pods)]

\* The value of a _list_<kind> coroutine: the gathered objects, in order.
KindObjects(i, k) ==
    LET pairs == Pairs(Listing(ApiServer(cluster_loaders[i].cluster), k))
    IN [n \in 1..Len(pairs) |->
           BuildObj(cluster_loaders[i].cluster, pairs[n].item, pairs[n].container,
                    buildTask[i][k][n].pods)]

GatherFailed(i) == \E k \in KindIds : KindFailed(i, k)
GatherDone(i) == \A k \in KindIds : KindDone(i, k)

\* A faulty variant: nothing catches the exception of the gather.
ClusterScanPropagates(i) ==
    IF GatherFailed(i) THEN [st |-> "raised", objects |-> <<>>]
    ELSE [st |-> "returned",
          objects |-> NamespaceFilter(config.namespaces,
                          chain([k \in KindIds |-> KindObjects(i, k)]))]

\* A faulty variant: the except clause returns what the kinds that did not fail
\* have gathered.
ClusterScanPartial(i) ==
    [st |-> "returned",
     objects |-> NamespaceFilter(config.namespaces,
         chain([k \in KindIds |-> IF KindDone(i, k) THEN KindObjects(i, k) ELSE <<>>]))]

\* Lines 44-60: how the cluster scan ends once its gather is done: the
\* except clause returns [], otherwise the chained objects are filtered.
ClusterScan(i) ==
    IF GatherFailed(i) THEN [st |-> "returned", objects |-> <<>>]
    ELSE [st |-> "returned",
          objects |-> NamespaceFilter(config.namespaces,
                          chain([k \in KindIds |-> KindObjects(i, k)]))]

\* Lines 45-60: the gather of the four kinds is done and the scan resumes.
ClusterReturn(i) ==
    /\ clusterTask[i].st = "running"
    /\ GatherFailed(i) \/ GatherDone(i)
    /\ clusterTask' = [clusterTask EXCEPT ![i] = ClusterScan(i)]
    /\ UNCHANGED <<config, kube, kube_calls, pc, clusters, cluster_loaders,
                   kindTask, buildTask, result, queue, zombies, selector, selector_query>>

\* Lines 211-212: the gather of the cluster scans is done: with the first
\* exception of a scan, which the caller gets, or with every scan's list,
\* and the lists are chained.
ScanReturn ==
    /\ pc = "scanning"
    /\ \/ \E i \in Loaders : clusterTask[i].st = "raised"
       \/ \A i \in Loaders : clusterTask[i].st = "returned"
    /\ IF \E i \in Loaders : clusterTask[i].st = "raised"
       THEN pc' = "failed" /\ result' = result
       ELSE /\ pc' = "returned"
            /\ result' = Some(chain([i \in Loaders |-> clusterTask[i].objects]))
    /\ UNCHANGED <<config, kube, kube_calls, clusters, cluster_loaders,
                   clusterTask, kindTask, buildTask, queue, zombies,
                   selector, selector_query>>

\* The task awaiting list_scannable_objects is cancelled.  The gather of
\* line 211 cancels the cluster scans still running; a gather that is not
\* done cancels its children, a gather already done with an exception
\* (lines 45 and 111) cancels nothing: the siblings of a failed task run on.
\* CancelledError is not an Exception, so line 51 does not catch it.
\* The call of a cancelled task leaves the executor's queue if it waits
\* there; if a thread is in it, the thread stays in it to the call's end.
Cancel ==
    /\ pc = "scanning"
    /\ pc' = "cancelled"
    /\ clusterTask' = [i \in Loaders |->
          IF clusterTask[i].st = "running"
          THEN [clusterTask[i] EXCEPT !.st = "cancelled"] ELSE clusterTask[i]]
    /\ kindTask' = [i \in Loaders |-> [k \in KindIds |->
          IF ~GatherFailed(i) /\ ~KindDone(i, k) THEN "cancelled" ELSE kindTask[i][k]]]
    /\ buildTask' = [i \in Loaders |-> [k \in KindIds |->
          [n \in 1..Len(buildTask[i][k]) |->
              IF ~GatherFailed(i) /\ buildTask[i][k][n].st = "calling"
              THEN [buildTask[i][k][n] EXCEPT !.st = "cancelled"]
              ELSE buildTask[i][k][n]]]]
    /\ queue' = SelectSeq(queue, LAMBDA c : GatherFailed(c[1]))
    /\ zombies' = zombies
          + Cardinality({c \in Handed : ~GatherFailed(c[1]) /\ ~Queued(c)})
    /\ UNCHANGED <<config, kube, kube_calls, clusters, cluster_loaders, result,
                   selector, selector_query>>

\* The call of a cancelled task ends and its thread takes the next call.
ZombieDone ==
    /\ zombies > 0
    /\ zombies' = zombies - 1
    /\ queue' = Admit(queue, PoolSize - (Busy - 1))
    /\ UNCHANGED <<config, kube, kube_calls, pc, clusters, cluster_loaders,
                   clusterTask, kindTask, buildTask, result, selector, selector_query>>

Next ==
    \/ ListClustersInside
    \/ ListClustersReturns
    \/ ListClustersRaises
    \/ StartScan
    \/ \E i \in Loaders, k \in KindIds : ListReturns(i, k)
    \/ \E i \in Loaders, k \in KindIds : ListRaises(i, k)
    \/ \E i \in Loaders, k \in KindIds : \E n \in 1..Len(buildTask[i][k]) : PodsReturn(i, k, n)
    \/ \E i \in Loaders, k \in KindIds : \E n \in 1..Len(buildTask[i][k]) : PodsRaise(i, k, n)
    \/ \E i \in Loaders : ClusterReturn(i)
    \/ ScanReturn
    \/ Cancel
    \/ ZombieDone

Spec == Init /\ [][Next]_vars

(***************************************************************************)
(* list_clusters alone, over every filter and kube-config store below.     *)
(***************************************************************************)

ResolveConfigs ==
    [inside_cluster : BOOLEAN,
     clusters : {ClustersNone, ClustersAll, ClustersList(<<>>), ClustersList(<<"a">>),
                 ClustersList(<<"b", "ghost">>), ClustersList(<<"c", "a">>),
                 ClustersList(<<"ghost">>)},
     namespaces : {NamespacesAll}]

ResolveKubes ==
    UNION {[reachable : BOOLEAN, contexts : {cs}, current_context : Range(cs)] :
              cs \in {<<"a">>, <<"a", "b">>, <<"b", "a">>, <<"a", "b", "c">>, <<"c", "b", "a">>}}

InitResolve ==
    /\ config \in ResolveConfigs
    /\ kube \in ResolveKubes
    /\ InitProgram
    /\ selector = [match_labels |-> None, match_expressions |-> None]
    /\ selector_query = None

NextResolve ==
    \/ ListClustersInside
    \/ ListClustersReturns
    \/ ListClustersRaises

SpecResolve == InitResolve /\ [][NextResolve]_vars

(***************************************************************************)
(* _build_selector_query alone, over every selector below.                 *)
(***************************************************************************)

Operators ==
    {"In", "NotIn", "Exists", "DoesNotExist", "exists", "EXISTS", "doesnotexist", "Gt"}

Expressions ==
    [key : {"tier"}, operator : Operators, values : {<<>>, <<"fe">>, <<"fe", "edge">>}]

\* match_labels and match_expressions are None when the manifest has none.
Selectors ==
    [match_labels : {None, Some(<<>>), Some(<< <<"app", "web">> >>),
                     Some(<< <<"app", "web">>, <<"env", "prod">> >>)},
     match_expressions :
        {None, Some(<<>>)} \cup {Some(<<e>>) : e \in Expressions}
        \cup {Some(<<e, f>>) : e \in Expressions,
                               f \in {x \in Expressions : x.values = <<"fe">>}}]

InitSelector ==
    /\ config = [inside_cluster |-> TRUE, clusters |-> ClustersNone,
                 namespaces |-> NamespacesAll]
    /\ kube = [reachable |-> FALSE, contexts |-> <<"a", "b">>, current_context |-> "a"]
    /\ InitProgram
    /\ selector \in Selectors
    /\ selector_query = None

\* Line 84: the selector of a resource is rendered.
RenderSelector ==
    /\ selector_query = None
    /\ selector_query' = Some(_build_selector_query(selector))
    /\ UNCHANGED <<config, kube, kube_calls, pc, clusters, scanVars, selector>>

NextSelector == RenderSelector

SpecSelector == InitSelector /\ [][NextSelector]_vars

(***************************************************************************)
(* The scan left to run: nobody cancels it, every call handed to a thread  *)
(* ends, and the event loop resumes every task that can go on.             *)
(***************************************************************************)

CallEnds ==
    \E i \in Loaders, k \in KindIds :
        \/ ListReturns(i, k)
        \/ ListRaises(i, k)
        \/ \E n \in 1..Len(buildTask[i][k]) : PodsReturn(i, k, n) \/ PodsRaise(i, k, n)

NextUncancelled ==
    \/ ListClustersInside
    \/ ListClustersReturns
    \/ ListClustersRaises
    \/ StartScan
    \/ CallEnds
    \/ \E i \in Loaders : ClusterReturn(i)
    \/ ScanReturn

SpecUncancelled ==
    /\ Init
    /\ [][NextUncancelled]_vars
    /\ WF_vars(CallEnds)
    /\ WF_vars(\E i \in Loaders : ClusterReturn(i))
    /\ WF_vars(ScanReturn)

(***************************************************************************)
(* The claims.                                                             *)
(***************************************************************************)

Objects(i) == chain([k \in KindIds |-> KindObjects(i, k)])

EveryCallRaised(i) == \A k \in KindIds : kindTask[i][k] = "raised"
EveryCallSucceeded(i) == GatherDone(i)

\* The namespace policy as the specification words it.
PolicyKeeps(namespace) ==
    IF config.namespaces.kind = "star" THEN namespace # "kube-system"
    ELSE \E n \in 1..Len(config.namespaces.names) : config.namespaces.names[n] = namespace

\* C1: in a scan of two clusters, one whose every call raised and one whose
\* calls all succeeded, no scan raises, and the value returned is exactly
\* the healthy cluster's list: its built records that the namespace policy
\* keeps, none missing, none of the failing cluster.
C1_ClusterScanIsolation ==
    \A i \in Loaders, j \in Loaders :
        (Len(cluster_loaders) = 2 /\ i # j /\ EveryCallRaised(i) /\ EveryCallSucceeded(j)) =>
            /\ pc # "failed"
            /\ clusterTask[i].st # "raised"
            /\ clusterTask[j].st # "raised"
            /\ pc = "returned" =>
                  /\ result = Some(clusterTask[j].objects)
                  /\ The(result) =
                        SelectSeq(Objects(j), LAMBDA obj : PolicyKeeps(obj.namespace))
                  /\ \A n \in 1..Len(The(result)) :
                        The(result)[n].cluster = cluster_loaders[j].cluster

C1_Witness ==
    /\ pc = "returned"
    /\ Len(cluster_loaders) = 2
    /\ \E i \in Loaders, j \in Loaders :
          i # j /\ EveryCallRaised(i) /\ EveryCallSucceeded(j) /\ The(result) # <<>>

EmptySelector(sel) ==
    /\ IsNone(sel.match_labels) \/ The(sel.match_labels) = <<>>
    /\ IsNone(sel.match_expressions) \/ The(sel.match_expressions) = <<>>

\* C2: a workload whose selector has no match-labels and no
\* match-expressions renders to "no selector" (None); no pod-list query is
\* ever in flight for it and its build tasks end with pods = [].
C2_EmptySelectorSkipsPods ==
    \A i \in Loaders, k \in KindIds :
        kindTask[i][k] = "listed" =>
            LET pairs == Pairs(Listing(ApiServer(cluster_loaders[i].cluster), k))
            IN \A n \in 1..Len(pairs) :
                  EmptySelector(pairs[n].item.selector) =>
                      /\ _build_selector_query(pairs[n].item.selector) = Returned(None)
                      /\ buildTask[i][k][n].st # "calling"
                      /\ buildTask[i][k][n].pods = <<>>

\* C3: a cluster scan one of whose kind-list calls or object-build tasks
\* raised returns the empty list, never the records of what succeeded, and
\* neither the cluster scan nor the overall scan raises.
C3_FailureAsUnit ==
    /\ pc # "failed"
    /\ \A i \in Loaders :
          /\ clusterTask[i].st # "raised"
          /\ (GatherFailed(i) /\ clusterTask[i].st = "returned") =>
                clusterTask[i].objects = <<>>
          /\ (GatherFailed(i) /\ pc = "returned") =>
                \A n \in 1..Len(The(result)) :
                    The(result)[n].cluster # cluster_loaders[i].cluster

C3_Witness ==
    /\ pc = "returned"
    /\ \E i \in Loaders :
          /\ \E k \in KindIds : KindDone(i, k) /\ KindObjects(i, k) # <<>>
          /\ \E k \in KindIds : \E n \in 1..Len(buildTask[i][k]) :
                buildTask[i][k][n].st = "raised"
          /\ clusterTask[i] = [st |-> "returned", objects |-> <<>>]

RECURSIVE SumContainers(_)
SumContainers(items) ==
    IF items = <<>> THEN 0
    ELSE Len(Head(items).containers) + SumContainers(Tail(items))

\* C4: a kind whose listing and builds succeeded contributes the sum of its
\* workloads' container counts, exactly one record per (workload,
\* container) pair, and the records of one workload agree on cluster,
\* namespace, name, kind and pods.
C4_ObjectCount ==
    \A i \in Loaders, k \in KindIds :
        KindDone(i, k) =>
            LET items == Listing(ApiServer(cluster_loaders[i].cluster), k)
                objs == KindObjects(i, k)
            IN /\ Len(objs) = SumContainers(items)
               /\ \A w \in 1..Len(items) : \A c \in 1..Len(items[w].containers) :
                     Cardinality({n \in 1..Len(objs) :
                         /\ objs[n].namespace = items[w].namespace
                         /\ objs[n].name = items[w].name
                         /\ objs[n].container = items[w].containers[c].name}) = 1
               /\ \A m \in 1..Len(objs), n \in 1..Len(objs) :
                     (objs[m].namespace = objs[n].namespace /\ objs[m].name = objs[n].name) =>
                         /\ objs[m].cluster = objs[n].cluster
                         /\ objs[m].kind = objs[n].kind
                         /\ objs[m].pods = objs[n].pods

\* C5: a cluster scan that succeeded returns exactly the built records the
\* namespace policy keeps, in their order: under the wildcard those not in
\* kube-system, under an explicit list those whose namespace is listed.
C5_NamespacePolicy ==
    \A i \in Loaders :
        (clusterTask[i].st = "returned" /\ GatherDone(i)) =>
            clusterTask[i].objects =
                SelectSeq(Objects(i), LAMBDA obj : PolicyKeeps(obj.namespace))

C5_Witness ==
    \E i \in Loaders :
        /\ clusterTask[i].st = "returned"
        /\ GatherDone(i)
        /\ config.namespaces.kind = "star"
        /\ \E n \in 1..Len(Objects(i)) : Objects(i)[n].namespace = "kube-system"
        /\ clusterTask[i].objects # <<>>
        /\ Len(clusterTask[i].objects) < Len(Objects(i))

\* C6: outside a cluster, list_clusters returns every enumerated context
\* under the wildcard, the current context alone under an unset or empty
\* filter, and under an explicit list the enumerated contexts named in it,
\* in enumeration order, the names it does not find dropped.
C6_ClusterListResolution ==
    (pc = "resolved" /\ ~config.inside_cluster) =>
        /\ ~IsNone(clusters)
        /\ LET names == The(clusters)
               wanted == {config.clusters.names[n] : n \in 1..Len(config.clusters.names)}
           IN CASE config.clusters.kind = "star" -> names = kube.contexts
                [] config.clusters.kind = "none" -> names = <<kube.current_context>>
                [] config.clusters.kind = "list" /\ wanted = {} ->
                      names = <<kube.current_context>>
                [] OTHER ->
                      /\ {names[n] : n \in 1..Len(names)}
                            = {kube.contexts[n] : n \in 1..Len(kube.contexts)} \cap wanted
                      /\ names = SelectSeq(kube.contexts,
                                           LAMBDA c : \E n \in 1..Len(names) : names[n] = c)

C6_Witness ==
    /\ pc = "resolved"
    /\ config.clusters = ClustersList(<<"b", "ghost">>)
    /\ kube.contexts = <<"a", "b", "c">>
    /\ clusters = Some(<<"b">>)

\* The rendering as the specification words it: one term per match-label,
\* then one per match-expression; none of either is no term.
C7_Term(e) ==
    IF e.operator \in {"Exists", "exists", "EXISTS"} THEN e.key
    ELSE IF e.operator \in {"DoesNotExist", "doesnotexist"} THEN "!" \o e.key
    ELSE e.key \o " " \o e.operator \o " (" \o join(",", e.values) \o ")"

C7_Query(sel) ==
    LET labels == IF IsNone(sel.match_labels) THEN <<>> ELSE The(sel.match_labels)
        es == IF IsNone(sel.match_expressions) THEN <<>> ELSE The(sel.match_expressions)
    IN join(",", [n \in 1..Len(labels) |-> labels[n][1] \o "=" \o labels[n][2]]
                 \o [n \in 1..Len(es) |-> C7_Term(es[n])])

\* C7: for every selector the rendering returns, without raising, the
\* comma-joined k=v terms of the match-labels followed by the terms of the
\* match-expressions (bare key, !key, or key operator (values)).
C7_SelectorRendering ==
    ~IsNone(selector_query) =>
        The(selector_query) = Returned(Some(C7_Query(selector)))

\* C8: once the overall scan is cancelled no cluster, kind-listing or
\* object-build task is still in flight, and nothing is returned.
C8_CancellationReachesEveryTask ==
    pc = "cancelled" =>
        /\ result = None
        /\ \A i \in Loaders :
              /\ clusterTask[i].st # "running"
              /\ \A k \in KindIds :
                    /\ kindTask[i][k] # "listing"
                    /\ \A n \in 1..Len(buildTask[i][k]) : buildTask[i][k][n].st # "calling"

\* C9: outside a cluster with the kube-config store unreachable,
\* list_clusters ends by raising to its caller: no value is returned, no
\* ClusterLoader is made, no task started and no result produced.
C9_ResolutionFailureIsFatal ==
    (~config.inside_cluster /\ ~kube.reachable /\ pc # "start") =>
        /\ pc = "raised"
        /\ clusters = None
        /\ cluster_loaders = <<>>
        /\ clusterTask = <<>>
        /\ kindTask = <<>>
        /\ buildTask = <<>>
        /\ result = None

C9_Witness == pc = "raised" /\ kube_calls = 1 /\ ~config.inside_cluster

\* C10: inside a cluster list_clusters returns None whatever the filter and
\* never enumerates the contexts; a scan given None has exactly one loader,
\* of cluster None, and every record of it has cluster None; a scan given n
\* names has n loaders, the n-th of the n-th name.
C10_ImplicitContext ==
    /\ (config.inside_cluster /\ pc # "start") =>
          pc # "raised" /\ clusters = None /\ kube_calls = 0
    /\ (pc \in {"scanning", "returned", "cancelled", "failed"} /\ IsNone(clusters)) =>
          /\ cluster_loaders = <<[cluster |-> None]>>
          /\ \A k \in KindIds : \A n \in 1..Len(buildTask[1][k]) :
                KindObjects(1, k)[n].cluster = None
          /\ \A n \in 1..Len(clusterTask[1].objects) :
                clusterTask[1].objects[n].cluster = None
          /\ pc = "returned" =>
                \A n \in 1..Len(The(result)) : The(result)[n].cluster = None
    /\ (pc \in {"scanning", "returned", "cancelled", "failed"} /\ ~IsNone(clusters)) =>
          /\ Len(cluster_loaders) = Len(The(clusters))
          /\ \A n \in 1..Len(The(clusters)) :
                cluster_loaders[n].cluster = Some(The(clusters)[n])

C10_Witness ==
    /\ config.inside_cluster
    /\ config.clusters = ClustersAll
    /\ pc = "returned"
    /\ Len(cluster_loaders) = 1
    /\ The(result) # <<>>

\* Where the API server of a cluster holds a record's workload and container:
\* the kind in the order of lines 46-49, the workload's place in the kind's
\* listing, the container's place in the pod template.
Places(server) ==
    UNION {UNION {{<<k, m, c>> : c \in 1..Len(Listing(server, k)[m].containers)} :
                     m \in 1..Len(Listing(server, k))} : k \in KindIds}

Place(server, obj) ==
    CHOOSE p \in Places(server) :
        /\ Listing(server, p[1])[p[2]].name = obj.name
        /\ Listing(server, p[1])[p[2]].namespace = obj.namespace
        /\ Listing(server, p[1])[p[2]].containers[p[3]].name = obj.container

Precedes(p, q) ==
    \/ p[1] < q[1]
    \/ p[1] = q[1] /\ p[2] < q[2]
    \/ p[1] = q[1] /\ p[2] = q[2] /\ p[3] < q[3]

\* C11: in whatever order the tasks complete, the value returned is the
\* concatenation of the clusters' lists in the order of the clusters, every
\* record carries the cluster of the loader that built it, and the records
\* of a cluster come kind by kind, within a kind in the API's workload
\* order and within a workload in the pod template's container order.
C11_DeterministicOrder ==
    pc = "returned" =>
        /\ The(result) = chain([i \in Loaders |-> clusterTask[i].objects])
        /\ \A i \in Loaders :
              LET objs == clusterTask[i].objects
                  server == ApiServer(cluster_loaders[i].cluster)
              IN /\ \A n \in 1..Len(objs) : objs[n].cluster = cluster_loaders[i].cluster
                 /\ \A m \in 1..Len(objs), n \in 1..Len(objs) :
                       m < n => Precedes(Place(server, objs[m]), Place(server, objs[n]))

\* Four records of three workloads and two kinds were returned.
C11_Witness ==
    /\ pc = "returned"
    /\ Len(The(result)) = 4
    /\ The(result)[1].container = "nginx"
    /\ The(result)[4].kind = "StatefulSet"

\* A _list_<kind> task and the __build_obj tasks it gathered have completed.
KindCompleted(i, k) ==
    /\ kindTask[i][k] \in {"listed", "raised"}
    /\ \A n \in 1..Len(buildTask[i][k]) : buildTask[i][k][n].st \in {"done", "raised"}

\* C12: the overall scan returns only after every cluster's scan has, and a
\* cluster's scan has its value, records or the [] of a failure, only after
\* each of its four kind tasks and each of their build tasks has completed.
C12_MergeOnlyAfterCompletion ==
    /\ pc = "returned" => \A i \in Loaders : clusterTask[i].st = "returned"
    /\ \A i \in Loaders :
          clusterTask[i].st = "returned" => \A k \in KindIds : KindCompleted(i, k)

\* C16: once a cluster's scan has returned, with records or with the [] of
\* a failure, no kind-list or pod-list call of that cluster is in a thread
\* or waits for one.
C16_QuiescenceAfterClusterReturn ==
    \A i \in Loaders :
        clusterTask[i].st = "returned" => ~\E call \in Handed : call[1] = i

\* The calls a thread is in.
InThread == {call \in Handed : ~Queued(call)}

\* C13 as worded: no call handed over by a task ever waits for the call of
\* another task to end.
C13_RealFanOut == queue = <<>>

\* C13, amended: a call handed over waits only while every thread of the
\* executor is in another call; short of that, every call handed over is
\* in a thread, whatever the kind, build task or cluster it belongs to.
C13_FanOutUpToPool ==
    /\ Busy <= PoolSize
    /\ queue # <<>> => Busy = PoolSize
    /\ \A m \in 1..Len(queue) : queue[m] \in Handed
    /\ Cardinality(InThread) + zombies = Busy

\* Two cluster scans are in flight, the four list calls of the first and a
\* list call of the second in threads, and the pool is exhausted.
C13_Witness ==
    /\ Len(cluster_loaders) = 2
    /\ \A k \in KindIds : <<1, k, 0>> \in InThread
    /\ \E k \in KindIds : <<2, k, 0>> \in InThread
    /\ queue # <<>>

\* The build tasks of one kind are in their pod-list calls at once, with
\* the list call of another kind.
C13_WitnessBuilds ==
    \E i \in Loaders, k \in KindIds, j \in KindIds :
        /\ k # j
        /\ Cardinality({call \in InThread : call[1] = i /\ call[2] = k /\ call[3] > 0}) >= 3
        /\ <<i, j, 0>> \in InThread

\* The workload of a record, found by name in the listings of its cluster.
Workload(server, obj) ==
    LET p == Place(server, obj) IN Listing(server, p[1])[p[2]]

\* C14: every pod query is namespaced to the namespace of the workload
\* being built and carries the rendering of that workload's own selector;
\* a listed kind has one build task per (workload, container) pair and
\* each with a non-empty selector has issued its query; and a record's pods
\* are the names of that query's response, in its order.
C14_PodCorrelationScope ==
    \A i \in Loaders :
        LET server == ApiServer(cluster_loaders[i].cluster) IN
        /\ \A k \in KindIds :
              kindTask[i][k] = "listed" =>
                 /\ Len(buildTask[i][k]) = SumContainers(Listing(server, k))
                 /\ \A n \in 1..Len(buildTask[i][k]) :
                       LET task == buildTask[i][k][n]
                           item == Pairs(Listing(server, k))[n].item
                       IN /\ task.namespace = item.namespace
                          /\ ~IsNone(task.label_selector) =>
                                task.label_selector = Some(C7_Query(item.selector))
                          /\ ~EmptySelector(item.selector) =>
                                ~IsNone(task.label_selector)
                          /\ task.st = "done" =>
                                task.pods \in PodLists(server, item.namespace,
                                                       C7_Query(item.selector))
        /\ \A n \in 1..Len(clusterTask[i].objects) :
              LET obj == clusterTask[i].objects[n]
                  item == Workload(server, obj)
              IN obj.pods \in PodLists(server, item.namespace, C7_Query(item.selector))

\* C15: a cluster scan issues four cluster-wide list calls, one each for
\* Deployments, StatefulSets, DaemonSets and Jobs, and none for bare pods;
\* every record built or returned has one of these four kinds.
C15_BarePodPathDisabled ==
    \A i \in Loaders :
        /\ Cardinality(DOMAIN kindTask[i]) = 4
        /\ {Kinds[k] : k \in DOMAIN kindTask[i]} =
              {"V1Deployment", "V1StatefulSet", "V1DaemonSet", "V1Job"}
        /\ \A k \in DOMAIN kindTask[i] :
              \A n \in 1..Len(Listing(ApiServer(cluster_loaders[i].cluster), k)) :
                 Listing(ApiServer(cluster_loaders[i].cluster), k)[n].cls = Kinds[k]
        /\ \A n \in 1..Len(clusterTask[i].objects) :
              clusterTask[i].objects[n].kind \in
                 {"Deployment", "StatefulSet", "DaemonSet", "Job"}
        /\ ~IsNone(result) =>
              \A n \in 1..Len(The(result)) :
                 The(result)[n].kind \in {"Deployment", "StatefulSet", "DaemonSet", "Job"}

\* The four list calls of a cluster have returned and records of two kinds
\* were returned to the caller.
C15_Witness ==
    /\ pc = "returned"
    /\ \E i \in Loaders : \A k \in KindIds : kindTask[i][k] = "listed"
    /\ \E m \in 1..Len(The(result)), n \in 1..Len(The(result)) :
          The(result)[m].kind = "Deployment" /\ The(result)[n].kind = "StatefulSet"

\* C17: a scan that is not cancelled and whose every call ends returns a
\* result, whichever clusters succeed and fail.
C17_Termination == (pc = "scanning") ~> (pc = "returned")

\* The scan of two clusters, one failed and one not, has returned.
C17_Witness ==
    /\ pc = "returned"
    /\ ~IsNone(result)
    /\ \E i \in Loaders, j \in Loaders : GatherFailed(i) /\ GatherDone(j)

====
